---- MODULE Spec2Model ----
(***************************************************************************)
(* FuelRoutePlanner: the route-proximity search (utils/helpers.py,         *)
(* find_stations_along_route and batch_process_coordinates), the greedy    *)
(* stop optimizer (find_optimal_fuel_stops), the cost aggregator           *)
(* (calculate_fuel_cost) and the view that chains them (views.py).         *)
(*                                                                         *)
(* Numbers.  Python floats are modelled by integers:                       *)
(*   - latitudes and longitudes are whole degrees; NaN is one value that   *)
(*     is no coordinate;                                                   *)
(*   - miles handed in by the caller (radius, range, total distance) are   *)
(*     whole miles;                                                        *)
(*   - a distance computed by calculate_distance is in thousandths of a    *)
(*     mile;                                                               *)
(*   - quotients the code forms (radius / 69.0, lon / grid_size, the       *)
(*     score) are kept exact as integer cross-multiplications.             *)
(* Lists are sequences; a 0-based Python position i is read with At(s, i). *)
(***************************************************************************)
EXTENDS Integers, Sequences, FiniteSets, TLC

VARIABLES
    all_stations,        \* the catalog: load_fuel_stations() / the stations argument
    coordinates,         \* the route polyline, a list of [lon, lat]
    max_deviation_miles, \* the deviation radius of the proximity query
    route_stations,      \* result of find_stations_along_route / optimizer input
    batch_size,          \* chunk size of the last batch_process_coordinates call
    batch_stations,      \* result of batch_process_coordinates
    total_distance,      \* find_optimal_fuel_stops argument (miles)
    max_range,           \* find_optimal_fuel_stops argument (miles)
    current_range,       \* optimizer local
    optimal_stops,       \* optimizer local, the plan (list of stations)
    last_stop_index,     \* optimizer local, 0-based position in route_stations
    distance_covered,    \* optimizer local (thousandths of a mile)
    iterations,          \* number of times the body of the while loop has run
    mpg,                 \* calculate_fuel_cost argument
    total_fuel_cost,     \* result of calculate_fuel_cost (thousandths)
    best_station_index,  \* optimizer local, assigned only when a candidate is taken
    exception,           \* the exception a call raised, "none" when it returned
    caller,              \* "view" (optimized_routes) or "direct" (a call of the helpers)
    pc                   \* position of the caller

vars == <<all_stations, coordinates, max_deviation_miles, route_stations, batch_size,
          batch_stations, total_distance, max_range, current_range, optimal_stops,
          last_stop_index, distance_covered, iterations, mpg, total_fuel_cost,
          best_station_index, exception, caller, pc>>

-----------------------------------------------------------------------------
(* Bounds of the model *)

MaxCatalog == 2      \* stations in a catalog of the proximity specification
MaxRoute == 2        \* coordinates in a route of the proximity specification
MaxBatch == 2        \* largest chunk size tried
MaxStations == 3     \* stations in a list handed to the optimizer

-----------------------------------------------------------------------------
(* Program constants *)

NaN == 1000000                   \* float('nan'): the one value that is not finite
Unset == -1                      \* a local or result not assigned yet
MilesPerDegree == 69             \* the 69.0 of helpers.py (miles per degree)
MilliMilesPerCentiDegree == 691  \* R = 3959.87433 miles: R * pi / 180 = 69.11 miles per degree
ScoreWeight == 10                \* the 10 of the score
DefaultDeviationMiles == 5       \* find_stations_along_route(max_deviation_miles = 5)
DefaultMaxRange == 500           \* find_optimal_fuel_stops(max_range = 500)
DefaultMpg == 10                 \* mpg = 10

-----------------------------------------------------------------------------
(* Arithmetic helpers *)

Abs(x) == IF x < 0 THEN -x ELSE x
Max(a, b) == IF a >= b THEN a ELSE b
Min(a, b) == IF a <= b THEN a ELSE b

\* math.floor(n / d) and math.ceil(n / d) for a quotient n / d with d > 0
Floor(n, d) == n \div d
Ceil(n, d) == -((-n) \div d)

At(s, i) == s[i + 1]             \* Python s[i]

\* s[i:j - 1]: a chunk that loses its last coordinate
SliceShort(s, i, j) == SubSeq(s, i + 1, Min(j, Len(s)) - 1)

Slice(s, i, j) == SubSeq(s, i + 1, Min(j, Len(s)))   \* Python s[i:j]

RECURSIVE SetToSeq(_)
\* the elements of a set of small non-negative ints, in the order CPython iterates it
SetToSeq(S) ==
    IF S = {} THEN <<>>
    ELSE LET m == CHOOSE x \in S : \A y \in S : x <= y
         IN <<m>> \o SetToSeq(S \ {m})

RECURSIVE isqrt(_, _, _)
\* the largest s in lo..hi with s * s <= n
isqrt(n, lo, hi) ==
    IF lo >= hi THEN lo
    ELSE LET mid == (lo + hi + 1) \div 2
         IN IF mid * mid <= n THEN isqrt(n, mid, hi) ELSE isqrt(n, lo, mid - 1)

\* 100 * cos(lat degrees), tabulated every ten degrees
cos100(lat) ==
    LET a == (Abs(lat) + 5) \div 10
    IN CASE a = 0 -> 100 [] a = 1 -> 98 [] a = 2 -> 94 [] a = 3 -> 87 [] a = 4 -> 77
         [] a = 5 -> 64 [] a = 6 -> 50 [] a = 7 -> 34 [] a = 8 -> 17 [] OTHER -> 0

\* calculate_distance: the Haversine formula, in thousandths of a mile.
\* a = sin(dlat/2)^2 + cos(lat1) cos(lat2) sin(dlon/2)^2 and c = 2 atan2(sqrt a, sqrt(1-a))
\* are taken in their small-angle form c = sqrt(dlat^2 + cos(lat1) cos(lat2) dlon^2),
\* computed in hundredths of a degree, and distance = R * c.
calculate_distance(lat1, lon1, lat2, lon2) ==
    LET dlat == lat2 - lat1
        dlon == lon2 - lon1
        a == 10000 * dlat * dlat + cos100(lat1) * cos100(lat2) * dlon * dlon
        c == isqrt(a, 0, 40000)
    IN MilliMilesPerCentiDegree * c

Miles(m) == 1000 * m             \* whole miles in the unit of calculate_distance

-----------------------------------------------------------------------------
(* Proximity index *)

is_valid_coordinate(value) == value # NaN

\* grid_size = abs(max_deviation_miles / 69.0) * 2, as the fraction num / den
GridSize(miles) == [num |-> 2 * Abs(miles), den |-> MilesPerDegree]

\* the cell of a station: floor(lon / grid_size), floor(lat / grid_size) of the
\* clamped coordinates
StationCell(station, grid_size) ==
    LET lat == Max(-90, Min(90, station.latitude))
        lon == Max(-180, Min(180, station.longitude))
    IN <<Floor(lon * grid_size.den, grid_size.num),
         Floor(lat * grid_size.den, grid_size.num)>>

StationValid(station) ==
    is_valid_coordinate(station.latitude) /\ is_valid_coordinate(station.longitude)

\* create_grid_index: cell -> the indices of the valid stations in it
create_grid_index(stations, grid_size) ==
    LET valid == {idx \in 0 .. Len(stations) - 1 : StationValid(At(stations, idx))}
        cells == {StationCell(At(stations, idx), grid_size) : idx \in valid}
    IN [cell \in cells |->
          {idx \in valid : StationCell(At(stations, idx), grid_size) = cell}]

\* get_nearby_cells: every cell from floor((p - degree_radius) / grid_size) to
\* ceil((p + degree_radius) / grid_size) on both axes, degree_radius = abs(radius / 69.0)
get_nearby_cells(lon, lat, radius, grid_size) ==
    IF ~(/\ is_valid_coordinate(lon) /\ is_valid_coordinate(lat)
         /\ is_valid_coordinate(radius) /\ is_valid_coordinate(grid_size.num)) THEN {}
    ELSE
    LET clat == Max(-90, Min(90, lat))
        clon == Max(-180, Min(180, lon))
        r == Abs(radius)
        d == MilesPerDegree * grid_size.num
        min_x == Floor((MilesPerDegree * clon - r) * grid_size.den, d)
        max_x == Ceil((MilesPerDegree * clon + r) * grid_size.den, d)
        min_y == Floor((MilesPerDegree * clat - r) * grid_size.den, d)
        max_y == Ceil((MilesPerDegree * clat + r) * grid_size.den, d)
    IN (min_x .. max_x) \X (min_y .. max_y)

\* validate_coordinates: drop the non-finite pairs, clamp the others
validate_coordinates(coords) ==
    LET ok == SelectSeq(coords, LAMBDA c :
                  is_valid_coordinate(c[1]) /\ is_valid_coordinate(c[2]))
    IN [i \in 1 .. Len(ok) |->
          <<Max(-180, Min(180, ok[i][1])), Max(-90, Min(90, ok[i][2]))>>]

\* is_valid_coordinate(distance) and distance <= max_deviation_miles
WithinDeviation(distance, miles) ==
    is_valid_coordinate(distance) /\ distance <= Miles(miles)

\* the stations of the enumerated cells of one coordinate that pass the distance test
NearCoordinate(coord, stations, grid, miles, grid_size, found) ==
    LET nearby_cells == get_nearby_cells(coord[1], coord[2], miles, grid_size)
    IN {idx \in UNION {grid[cell] : cell \in nearby_cells \cap DOMAIN grid} :
          /\ idx \notin found
          /\ WithinDeviation(calculate_distance(At(stations, idx).latitude,
                                                At(stations, idx).longitude,
                                                coord[2], coord[1]), miles)}

RECURSIVE ScanCoordinates(_, _, _, _, _, _, _)
\* the loop over valid_coordinates, accumulating found_station_indices
ScanCoordinates(valid, k, stations, grid, miles, grid_size, found) ==
    IF k > Len(valid) THEN found
    ELSE ScanCoordinates(valid, k + 1, stations, grid, miles, grid_size,
             found \cup NearCoordinate(valid[k], stations, grid, miles, grid_size, found))

\* find_stations_along_route, returning the found indices
FoundIndices(coords, stations, miles) ==
    IF coords = <<>> \/ stations = <<>> \/ ~is_valid_coordinate(miles) THEN {}
    ELSE LET valid == validate_coordinates(coords)
             grid_size == GridSize(miles)
             grid == create_grid_index(stations, grid_size)
         IN IF valid = <<>> THEN {}
            ELSE IF grid_size.num <= 0 THEN {}
            ELSE IF DOMAIN grid = {} THEN {}
            ELSE ScanCoordinates(valid, 1, stations, grid, miles, grid_size, {})

find_stations_along_route(coords, stations, miles) ==
    LET found == SetToSeq(FoundIndices(coords, stations, miles))
    IN [k \in 1 .. Len(found) |-> At(stations, found[k])]

\* stations.index(station): the first position holding the station
IndexOf(stations, station) ==
    CHOOSE idx \in 0 .. Len(stations) - 1 :
        /\ At(stations, idx) = station
        /\ \A j \in 0 .. idx - 1 : At(stations, j) # station

RECURSIVE BatchIndices(_, _, _, _, _, _)
\* the loop of batch_process_coordinates over range(0, len(coordinates), batch_size)
BatchIndices(coords, stations, miles, size, i, all_station_indices) ==
    IF i >= Len(coords) THEN all_station_indices
    ELSE LET batch == Slice(coords, i, i + size)
             found == find_stations_along_route(batch, stations, miles)
         IN BatchIndices(coords, stations, miles, size, i + size,
                all_station_indices \cup
                    {IndexOf(stations, found[k]) : k \in 1 .. Len(found)})

batch_process_coordinates(coords, stations, miles, size) ==
    IF coords = <<>> \/ stations = <<>> THEN <<>>
    ELSE LET idxs == SetToSeq(BatchIndices(coords, stations, miles, size, 0, {}))
         IN [k \in 1 .. Len(idxs) |-> At(stations, idxs[k])]

-----------------------------------------------------------------------------
(* Stop optimizer and cost *)

None == [name |-> Unset]         \* best_station = None

\* the score without the price
ScoreIgnoringPrice(station, distance_to_station, range) ==
    distance_to_station * ScoreWeight

\* score = station.price + (distance_to_station / max_range) * 10, multiplied by
\* 1000 * max_range (max_range > 0) so that it stays an integer
Score(station, distance_to_station, range) ==
    station.price * Miles(range) + distance_to_station * ScoreWeight

\* no range test
ReachableAlways(distance_to_station, range) == TRUE

\* distance_to_station <= current_range
Reachable(distance_to_station, range) == distance_to_station <= Miles(range)

\* score <= best_score: the last of equal candidates wins
BetterOrEqual(score, best) == best.best_station = None \/ score <= best.best_score

\* score < best_score, best_score starting at float('inf')
Better(score, best) == best.best_station = None \/ score < best.best_score

\* route_stations[0:]: every station is scanned again
ScanFromZero(last) == 0

\* route_stations[last_stop_index:] starts the scan at last_stop_index
ScanStart(last) == last

\* the else branch lost
HasBestAlways(best) == TRUE

\* the truth value of best_station
HasBest(best) == best.best_station # None

DistanceFrom(stations, last, station) ==
    calculate_distance(At(stations, last).latitude, At(stations, last).longitude,
                       station.latitude, station.longitude)

RECURSIVE ScanStations(_, _, _, _, _, _)
\* the for loop of one iteration: the best candidate seen from position i on
ScanStations(stations, i, last, cur_range, range, best) ==
    IF i >= Len(stations) THEN best
    ELSE IF i = last THEN ScanStations(stations, i + 1, last, cur_range, range, best)
    ELSE LET station == At(stations, i)
             distance_to_station == DistanceFrom(stations, last, station)
             score == Score(station, distance_to_station, range)
         IN IF Reachable(distance_to_station, cur_range) /\ Better(score, best)
            THEN ScanStations(stations, i + 1, last, cur_range, range,
                     [best_station |-> station, best_score |-> score,
                      best_station_index |-> i])
            ELSE ScanStations(stations, i + 1, last, cur_range, range, best)

RECURSIVE SumPrice(_)
SumPrice(stops) == IF stops = <<>> THEN 0 ELSE Head(stops).price + SumPrice(Tail(stops))

\* calculate_fuel_cost in thousandths: (total_distance / mpg) * (sum / len)
FuelCost(stops, distance, m) == (1000 * distance * SumPrice(stops)) \div (m * Len(stops))

-----------------------------------------------------------------------------
(* Inputs *)

Radii == {-70, 0, 70, 140}
Distances == {0, 100, 1000}
Ranges == {150, 400}
Mpgs == {10, 25}
Prices == {3, 5}

\* [lon, lat] pairs of the routes of the proximity specification
RoutePoints == {<<1, 0>>, <<3, 0>>, <<3, 60>>, <<182, 0>>, <<NaN, 0>>}
\* (lon, lat) of the stations of the proximity specification
StationPoints == {<<0, 0>>, <<-1, 60>>, <<180, 0>>, <<0, NaN>>}
\* (lon, lat) of the stations handed to the optimizer
PlanPoints == {<<0, 0>>, <<1, 0>>, <<3, 0>>}
PlanRoutes == {<< <<0, 0>>, <<1, 0>>, <<3, 0>> >>, << <<0, 0>>, <<3, 0>> >>}

SeqsUpTo(S, n) == UNION {[1 .. k -> S] : k \in 0 .. n}

\* load_fuel_stations: one FuelStation object per row; name stands for the object
Station(i, point, price) ==
    [name |-> i, latitude |-> point[2], longitude |-> point[1], price |-> price]

Catalogs(points, prices, n) ==
    {[i \in 1 .. Len(rows) |-> Station(i - 1, rows[i][1], rows[i][2])] :
        rows \in SeqsUpTo(points \X prices, n)}

-----------------------------------------------------------------------------
(* State machine *)

Idle ==
    /\ route_stations = <<>>
    /\ batch_size = Unset
    /\ batch_stations = <<>>
    /\ total_distance = Unset
    /\ max_range = Unset
    /\ current_range = Unset
    /\ optimal_stops = <<>>
    /\ last_stop_index = Unset
    /\ distance_covered = Unset
    /\ iterations = 0
    /\ mpg = Unset
    /\ total_fuel_cost = Unset
    /\ best_station_index = Unset
    /\ exception = "none"
    /\ caller = "none"
    /\ pc = "start"

\* a proximity query: any catalog, any route, any radius
Init ==
    /\ all_stations \in Catalogs(StationPoints, {3}, MaxCatalog)
    /\ coordinates \in SeqsUpTo(RoutePoints, MaxRoute)
    /\ max_deviation_miles \in Radii
    /\ Idle

\* a planning request: the view's default radius
InitPlan ==
    /\ all_stations \in Catalogs(PlanPoints, Prices, MaxStations)
    /\ coordinates = <<>>
    /\ max_deviation_miles = DefaultDeviationMiles
    /\ Idle

\* route_stations = find_stations_along_route(coordinates, stations, max_deviation_miles)
FindStationsAlongRoute ==
    /\ pc = "start"
    /\ route_stations' =
           find_stations_along_route(coordinates, all_stations, max_deviation_miles)
    /\ pc' = "found"
    /\ UNCHANGED <<all_stations, coordinates, max_deviation_miles, batch_size,
                   batch_stations, total_distance, max_range, current_range,
                   optimal_stops, last_stop_index, distance_covered, iterations, mpg,
                   total_fuel_cost, best_station_index, exception, caller>>

\* batch_process_coordinates(coordinates, stations, max_deviation_miles, batch_size)
BatchProcessCoordinates ==
    /\ pc = "found"
    /\ \E size \in 1 .. MaxBatch :
          /\ batch_size' = size
          /\ batch_stations' = batch_process_coordinates(coordinates, all_stations,
                                                         max_deviation_miles, size)
    /\ pc' = "batched"
    /\ UNCHANGED <<all_stations, coordinates, max_deviation_miles, route_stations,
                   total_distance, max_range, current_range, optimal_stops,
                   last_stop_index, distance_covered, iterations, mpg, total_fuel_cost,
                   best_station_index, exception, caller>>

\* find_optimal_fuel_stops up to its while loop
EnterOptimizer(stations, distance, range) ==
    /\ route_stations' = stations
    /\ total_distance' = distance
    /\ max_range' = range
    /\ current_range' = range
    /\ optimal_stops' = <<>>
    /\ last_stop_index' = 0
    /\ distance_covered' = 0
    /\ pc' = "loop"
    /\ UNCHANGED <<all_stations, max_deviation_miles, batch_size, batch_stations,
                   iterations, mpg, total_fuel_cost, best_station_index, exception>>

\* optimized_routes: the route provider's coordinates and total distance,
\* route_stations = find_stations_along_route(coordinates, all_stations), then
\* find_optimal_fuel_stops(route_stations, total_distance) with the default range
ViewFindOptimalFuelStops ==
    /\ pc = "start"
    /\ caller' = "view"
    /\ \E route \in PlanRoutes, distance \in Distances :
          /\ coordinates' = route
          /\ EnterOptimizer(find_stations_along_route(route, all_stations,
                                                      DefaultDeviationMiles),
                            distance, DefaultMaxRange)

\* find_optimal_fuel_stops called with any list, distance and range
CallFindOptimalFuelStops ==
    /\ pc = "start"
    /\ caller' = "direct"
    /\ UNCHANGED coordinates
    /\ \E distance \in Distances, range \in Ranges :
          EnterOptimizer(all_stations, distance, range)

\* one run of the body of the while loop
WhileBody ==
    /\ pc = "loop"
    /\ distance_covered < Miles(total_distance)
    /\ iterations' = iterations + 1
    /\ LET best == ScanStations(route_stations, ScanStart(last_stop_index),
                                last_stop_index, current_range, max_range,
                                [best_station |-> None, best_score |-> 0,
                                 best_station_index |-> best_station_index])
       IN /\ best_station_index' = best.best_station_index
          /\ IF HasBest(best)
             THEN IF best.best_station = None
                  THEN \* None.latitude
                       /\ optimal_stops' = Append(optimal_stops, None)
                       /\ exception' = "AttributeError"
                       /\ pc' = "raised"
                       /\ UNCHANGED <<distance_covered, current_range, last_stop_index>>
                  ELSE /\ optimal_stops' = Append(optimal_stops, best.best_station)
                       /\ distance_covered' = distance_covered +
                              DistanceFrom(route_stations, last_stop_index,
                                           best.best_station)
                       /\ current_range' = max_range
                       /\ last_stop_index' = best.best_station_index
                       /\ UNCHANGED <<exception, pc>>
             ELSE \* break, return optimal_stops
                  /\ pc' = "returned"
                  /\ UNCHANGED <<optimal_stops, distance_covered, current_range,
                                 last_stop_index, exception>>
    /\ UNCHANGED <<all_stations, coordinates, max_deviation_miles, route_stations,
                   batch_size, batch_stations, total_distance, max_range, mpg,
                   total_fuel_cost, caller>>

\* the while condition fails: return optimal_stops
WhileExit ==
    /\ pc = "loop"
    /\ ~(distance_covered < Miles(total_distance))
    /\ pc' = "returned"
    /\ UNCHANGED <<all_stations, coordinates, max_deviation_miles, route_stations,
                   batch_size, batch_stations, total_distance, max_range,
                   current_range, optimal_stops, last_stop_index, distance_covered,
                   iterations, mpg, total_fuel_cost, best_station_index, exception,
                   caller>>

\* calculate_fuel_cost(optimal_stops, total_distance, mpg)
CalculateFuelCost ==
    /\ pc = "returned"
    /\ \E m \in (IF caller = "view" THEN {DefaultMpg} ELSE Mpgs) :
          /\ mpg' = m
          /\ IF Len(optimal_stops) = 0
             THEN \* sum(...) / len(optimal_stops) with len 0
                  /\ exception' = "ZeroDivisionError"
                  /\ UNCHANGED total_fuel_cost
             ELSE /\ total_fuel_cost' = FuelCost(optimal_stops, total_distance, m)
                  /\ UNCHANGED exception
    /\ pc' = "done"
    /\ UNCHANGED <<all_stations, coordinates, max_deviation_miles, route_stations,
                   batch_size, batch_stations, total_distance, max_range,
                   current_range, optimal_stops, last_stop_index, distance_covered,
                   iterations, best_station_index, caller>>

Next == FindStationsAlongRoute \/ BatchProcessCoordinates

Spec == Init /\ [][Next]_vars

NextPlan ==
    \/ ViewFindOptimalFuelStops
    \/ CallFindOptimalFuelStops
    \/ WhileBody
    \/ WhileExit
    \/ CalculateFuelCost

SpecPlan == InitPlan /\ [][NextPlan]_vars

-----------------------------------------------------------------------------
(* Properties of the proximity index (specification Spec) *)

Range(s) == {s[i] : i \in DOMAIN s}

\* a coordinate pair of the data model: finite and within [-180, 180] x [-90, 90]
InRange(lon, lat) ==
    /\ lon # NaN /\ lat # NaN
    /\ -180 <= lon /\ lon <= 180
    /\ -90 <= lat /\ lat <= 90

\* the great-circle distance from a station to a route coordinate [lon, lat]
MilesBetween(station, coord) ==
    calculate_distance(station.latitude, station.longitude, coord[2], coord[1])

\* C2: no false negatives. Once the query has returned, with a positive radius, every
\* station with valid coordinates that lies within the radius of at least one valid
\* route coordinate is in the result, at every latitude.
NoFalseNegatives ==
    (pc # "start" /\ max_deviation_miles > 0) =>
        \A idx \in 0 .. Len(all_stations) - 1 :
            LET station == At(all_stations, idx)
            IN (/\ StationValid(station)
                /\ InRange(station.longitude, station.latitude)
                /\ \E k \in DOMAIN coordinates :
                      /\ InRange(coordinates[k][1], coordinates[k][2])
                      /\ MilesBetween(station, coordinates[k]) <= Miles(max_deviation_miles))
               => station \in Range(route_stations)

\* C3: no false positives. Every returned station is within the radius of at least
\* one route coordinate the caller supplied.
NoFalsePositives ==
    pc # "start" =>
        \A station \in Range(route_stations) :
            \E k \in DOMAIN coordinates :
                /\ is_valid_coordinate(coordinates[k][1])
                /\ is_valid_coordinate(coordinates[k][2])
                /\ MilesBetween(station, coordinates[k]) <= Miles(max_deviation_miles)

\* C4: batching invariant. For every chunk size, the stations batch_process_coordinates
\* returns are the set of stations one find_stations_along_route call on the whole
\* route returns.
BatchingInvariant ==
    pc = "batched" => Range(batch_stations) = Range(route_stations)

\* C4's case: a route cut into two chunks that find different stations
BatchingWitness ==
    /\ pc = "batched"
    /\ batch_size = 1
    /\ Len(coordinates) = 2
    /\ Len(route_stations) = 2
    /\ find_stations_along_route(SubSeq(coordinates, 1, 1), all_stations,
                                 max_deviation_miles)
         # find_stations_along_route(SubSeq(coordinates, 2, 2), all_stations,
                                     max_deviation_miles)
    /\ find_stations_along_route(SubSeq(coordinates, 1, 1), all_stations,
                                 max_deviation_miles) # <<>>
    /\ find_stations_along_route(SubSeq(coordinates, 2, 2), all_stations,
                                 max_deviation_miles) # <<>>

-----------------------------------------------------------------------------
(* Properties of the optimizer and the cost (specification SpecPlan) *)

InOptimizer == pc \in {"loop", "returned", "done", "raised"}

\* positions of route_stations after position i
After(i) == (i + 1) .. (Len(route_stations) - 1)

\* thousandths of a mile from the station at position i to the station at position k
Leg(i, k) ==
    calculate_distance(At(route_stations, i).latitude, At(route_stations, i).longitude,
                       At(route_stations, k).latitude, At(route_stations, k).longitude)

\* price + (d / max_range) * 10 of the candidate at position k seen from position i,
\* times 1000 * max_range
Penalised(i, k) == 1000 * max_range * At(route_stations, k).price + 10 * Leg(i, k)

\* C1: an empty plan costs 0. When the cost of an empty plan has been computed, no
\* exception was raised and the cost is 0, whatever total_distance and mpg.
EmptyPlanCostsZero ==
    (pc = "done" /\ optimal_stops = <<>>) => (exception = "none" /\ total_fuel_cost = 0)

\* the first iteration of the loop has run
FirstStepTaken == InOptimizer /\ total_distance > 0 /\ iterations >= 1

\* C5 as stated: a station within max_range whose price is strictly lower than every
\* other station's is the first stop, whatever its position and whatever the distances
\* of the other reachable stations. (Stated for the positions after 0 only: position 0,
\* the origin of the first leg, is never chosen.)
CheapestReachableIsFirst ==
    FirstStepTaken =>
        \A j \in After(0) :
            (/\ Leg(0, j) <= Miles(max_range)
             /\ \A k \in 0 .. Len(route_stations) - 1 :
                   k # j => At(route_stations, j).price < At(route_stations, k).price)
            => (optimal_stops # <<>> /\ optimal_stops[1] = At(route_stations, j))

\* the case of C5 as amended, for the station at position j
CheapestAndNearest(j) ==
    /\ j >= 1
    /\ Leg(0, j) <= Miles(max_range)
    /\ \A k \in 0 .. Len(route_stations) - 1 :
          k # j => At(route_stations, j).price < At(route_stations, k).price
    /\ \A k \in After(0) : Leg(0, k) <= Miles(max_range) => Leg(0, j) <= Leg(0, k)

\* C5 as amended: a station after position 0, within max_range of route_stations[0],
\* whose price is strictly lower than every other station's and which is no farther
\* from route_stations[0] than any other reachable station, is the first stop.
CheapestNearestIsFirst ==
    FirstStepTaken =>
        \A j \in 0 .. Len(route_stations) - 1 :
            CheapestAndNearest(j)
            => (optimal_stops # <<>> /\ optimal_stops[1] = At(route_stations, j))

\* C5's case: the cheapest station is not the first candidate scanned, and another
\* candidate is reachable
CheapestNearestWitness ==
    /\ FirstStepTaken
    /\ \E j \in 2 .. Len(route_stations) - 1 :
          /\ CheapestAndNearest(j)
          /\ \E k \in 1 .. j - 1 : Leg(0, k) <= Miles(max_range)
          /\ optimal_stops[1] = At(route_stations, j)

\* the station a leg of the plan starts from: route_stations[0], then the stop before
LegOrigin(i) == IF i = 1 THEN At(route_stations, 0) ELSE optimal_stops[i - 1]

LegMiles(i) ==
    calculate_distance(LegOrigin(i).latitude, LegOrigin(i).longitude,
                       optimal_stops[i].latitude, optimal_stops[i].longitude)

\* C6: range per leg. Every leg of the plan, the first one from route_stations[0], is
\* at most max_range long, and current_range is max_range at every reachability test.
RangePerLeg ==
    InOptimizer =>
        /\ current_range = max_range
        /\ \A i \in 1 .. Len(optimal_stops) : LegMiles(i) <= Miles(max_range)

\* C6's case: a plan of two legs of positive length, chosen while a station out of
\* range of route_stations[0] was in the list
RangePerLegWitness ==
    /\ pc = "returned"
    /\ Len(optimal_stops) >= 2
    /\ \A i \in 1 .. Len(optimal_stops) : LegMiles(i) > 0
    /\ \E k \in After(0) : Leg(0, k) > Miles(max_range)

\* C7 as stated: the body of the loop runs at most len(route_stations) - 1 times.
\* (Stated for lists of two stations or more; for shorter lists the bound is 0 or -1
\* and the one breaking run already exceeds it.)
LoopRunsAtMostLenMinusOne ==
    (InOptimizer /\ Len(route_stations) >= 2) => iterations <= Len(route_stations) - 1

\* C7 as amended: every run of the loop body either breaks or strictly advances
\* last_stop_index; at most len(route_stations) - 1 runs append a stop and at most one
\* more run breaks, so the body runs at most max(len(route_stations), 1) times.
LoopTerminates ==
    /\ [][iterations' # iterations =>
              /\ iterations' = iterations + 1
              /\ \/ (pc' = "returned" /\ last_stop_index' = last_stop_index)
                 \/ (pc' = "loop" /\ last_stop_index' > last_stop_index
                                  /\ last_stop_index' <= Len(route_stations) - 1)]_vars
    /\ [](InOptimizer =>
              /\ iterations <= Max(Len(route_stations), 1)
              /\ Len(optimal_stops) <= Max(Len(route_stations) - 1, 0))

\* C7's case: the loop has run len(route_stations) times, with a leg of length 0 that
\* leaves distance_covered where it was
LoopTerminatesWitness ==
    /\ pc = "returned"
    /\ Len(route_stations) >= 3
    /\ iterations = Len(route_stations)
    /\ \E i \in 1 .. Len(optimal_stops) : LegMiles(i) = 0

\* C8: early termination is a return. A stop is appended only while
\* distance_covered < total_distance and a candidate after last_stop_index is within
\* current_range; otherwise the plan is returned as it is and nothing is raised. So
\* the plan is empty when total_distance is 0, when the list has at most one station,
\* and when no station after the first is within max_range.
EarlyTerminationReturns ==
    /\ [][optimal_stops' # optimal_stops =>
              /\ pc = "loop"
              /\ distance_covered < Miles(total_distance)
              /\ \E k \in After(last_stop_index) :
                    /\ Leg(last_stop_index, k) <= Miles(current_range)
                    /\ optimal_stops' = Append(optimal_stops, At(route_stations, k))]_vars
    /\ [][(pc = "loop" /\ pc' # "loop") =>
              /\ pc' = "returned"
              /\ optimal_stops' = optimal_stops
              /\ exception' = "none"
              /\ \/ ~(distance_covered < Miles(total_distance))
                 \/ \A k \in After(last_stop_index) :
                       Leg(last_stop_index, k) > Miles(current_range)]_vars
    /\ [](pc \in {"returned", "done"} =>
              ((\/ total_distance = 0
                \/ Len(route_stations) <= 1
                \/ \A k \in After(0) : Leg(0, k) > Miles(max_range))
               => optimal_stops = <<>>))

\* C8's case: the loop broke with a partial plan, the distance not covered
EarlyTerminationWitness ==
    /\ pc = "returned"
    /\ Len(optimal_stops) >= 1
    /\ distance_covered < Miles(total_distance)
    /\ After(last_stop_index) # {}

\* C9: selection rule. The stop a step appends is, among the positions after
\* last_stop_index within current_range, one of minimal price + (d / max_range) * 10,
\* and the smallest such position.
SelectionRule ==
    [][Len(optimal_stops') = Len(optimal_stops) + 1 =>
           LET j == last_stop_index'
               reachable == {k \in After(last_stop_index) :
                                Leg(last_stop_index, k) <= Miles(current_range)}
           IN /\ j \in reachable
              /\ optimal_stops'[Len(optimal_stops')] = At(route_stations, j)
              /\ \A k \in reachable :
                    /\ Penalised(last_stop_index, j) <= Penalised(last_stop_index, k)
                    /\ Penalised(last_stop_index, j) = Penalised(last_stop_index, k)
                           => j <= k]_vars

\* C9's case: the first stop was chosen among two candidates of equal score
SelectionRuleWitness ==
    /\ InOptimizer
    /\ Len(optimal_stops) >= 1
    /\ \E j \in After(0) :
          /\ optimal_stops[1] = At(route_stations, j)
          /\ \E k \in After(j) :
                /\ Leg(0, k) <= Miles(max_range)
                /\ Penalised(0, k) = Penalised(0, j)

\* C10: the plan is a subsequence of route_stations. The positions of the stops are
\* strictly increasing and at least 1, no position is chosen twice, the plan has at
\* most len(route_stations) - 1 stops, position 0 is never in it, and in the view no
\* station the proximity filter excluded is in it.
PlanIsSubsequence ==
    InOptimizer =>
        /\ \A i \in 1 .. Len(optimal_stops) :
              \E j \in After(0) :
                  /\ optimal_stops[i] = At(route_stations, j)
                  /\ i = Len(optimal_stops) => j = last_stop_index
                  /\ i > 1 => \E h \in 1 .. j - 1 :
                                  optimal_stops[i - 1] = At(route_stations, h)
        /\ \A i, h \in 1 .. Len(optimal_stops) : i # h => optimal_stops[i] # optimal_stops[h]
        /\ Len(optimal_stops) <= Max(Len(route_stations) - 1, 0)
        /\ \A i \in 1 .. Len(optimal_stops) :
              optimal_stops[i] # At(route_stations, 0)
        /\ (caller = "view" /\ optimal_stops # <<>>) =>
              LET kept == Range(find_stations_along_route(coordinates, all_stations,
                                                          DefaultDeviationMiles))
              IN \A station \in Range(all_stations) :
                     station \notin kept => station \notin Range(optimal_stops)

\* C10's case: in the view, a plan chosen from a list the filter has shortened by a
\* station of the catalog
PlanIsSubsequenceWitness ==
    /\ caller = "view"
    /\ pc = "returned"
    /\ Len(route_stations) < Len(all_stations)
    /\ Len(optimal_stops) >= 1

====
